---- MODULE Spec2Model ----
(***************************************************************************)
(* A model of the address book of src/main.py: the validated fields       *)
(* (Name, Phone, Birthday), the contact Record, the AddressBook directory  *)
(* with its upcoming-birthdays query, and the add command.                 *)
(*                                                                         *)
(* Python strings are modelled as tuples of one-character strings, so that *)
(* strip(), lower(), the phone pattern, strptime and the date renderings   *)
(* are computed character by character.                                    *)
(***************************************************************************)
EXTENDS Integers, Sequences, FiniteSets, TLC

VARIABLES
  book,   \* AddressBook.data: the entries <<key, record>> in insertion order
  last,   \* the last call made and what it returned or raised
  rec,    \* a Record on its own, for the phone operations
  fld     \* a Birthday field from construction to rendering

vars == <<book, last, rec, fld>>

----------------------------------------------------------------------------
(* Values *)

\* Python's None where a string is expected: a one-element tuple whose
\* element is no character, so it differs from every string.
None == <<"None">>

\* A value of another type than str (the TypeError branches).
NotAStr == <<"int">>

IsStr(v) == v # None /\ v # NotAStr

\* Birthday.value when unset (None); also stands for Record.birthday = None,
\* which the code treats alike wherever it reads it (lines 143, 167, 265).
NoDate == [y |-> 0, m |-> 0, d |-> 0]

\* The characters \d matches, among those the inputs below are made of
Digits == {"0", "1", "2", "3", "4", "5", "6", "7", "8", "9"}

\* The characters strip() removes, among those the inputs are made of
Whitespace == {" "}

----------------------------------------------------------------------------
(* str.strip() and str.lower() *)

\* str.lower() on one character of the names' alphabet
Lower(c) ==
  CASE c = "A" -> "a"
    [] c = "B" -> "b"
    [] c = "L" -> "l"
    [] c = "O" -> "o"
    [] OTHER -> c

LowerStr(s) == [i \in 1..Len(s) |-> Lower(s[i])]

RECURSIVE LStrip(_)
LStrip(s) ==
  IF s # <<>> /\ Head(s) \in Whitespace THEN LStrip(Tail(s)) ELSE s

RECURSIVE RStrip(_)
RStrip(s) ==
  IF s # <<>> /\ s[Len(s)] \in Whitespace
  THEN RStrip(SubSeq(s, 1, Len(s) - 1))
  ELSE s

Strip(s) == RStrip(LStrip(s))

\* name.strip().lower(), the directory key (lines 150, 154, 158)
Normalize(s) == LowerStr(Strip(s))

----------------------------------------------------------------------------
(* datetime.date *)

IsLeap(y) == y % 4 = 0 /\ (y % 100 # 0 \/ y % 400 = 0)

DaysInMonth(y, m) ==
  CASE m \in {1, 3, 5, 7, 8, 10, 12} -> 31
    [] m \in {4, 6, 9, 11} -> 30
    [] OTHER -> IF IsLeap(y) THEN 29 ELSE 28

\* What date(y, m, d) accepts; anything else raises ValueError.
\* (MINYEAR = 1, MAXYEAR = 9999)
IsDate(y, m, d) ==
  /\ y \in 1..9999
  /\ m \in 1..12
  /\ d \in 1..DaysInMonth(y, m)

MkDate(y, m, d) == [y |-> y, m |-> m, d |-> d]

RECURSIVE DaysBeforeMonth(_, _)
DaysBeforeMonth(y, m) ==
  IF m = 1 THEN 0 ELSE DaysBeforeMonth(y, m - 1) + DaysInMonth(y, m - 1)

DaysBeforeYear(y) ==
  (y - 1) * 365 + ((y - 1) \div 4) - ((y - 1) \div 100) + ((y - 1) \div 400)

\* date.toordinal(): 0001-01-01 is day 1
ToOrdinal(dt) == DaysBeforeYear(dt.y) + DaysBeforeMonth(dt.y, dt.m) + dt.d

\* date.weekday(): Monday is 0, Saturday 5, Sunday 6
Weekday(dt) == (ToOrdinal(dt) + 6) % 7

\* date < date
DateLess(a, b) ==
  \/ a.y < b.y
  \/ a.y = b.y /\ a.m < b.m
  \/ a.y = b.y /\ a.m = b.m /\ a.d < b.d

\* (a - b).days
DiffDays(a, b) == ToOrdinal(a) - ToOrdinal(b)

NextDay(dt) ==
  IF dt.d < DaysInMonth(dt.y, dt.m) THEN MkDate(dt.y, dt.m, dt.d + 1)
  ELSE IF dt.m < 12 THEN MkDate(dt.y, dt.m + 1, 1)
  ELSE MkDate(dt.y + 1, 1, 1)

\* date + timedelta(days=n), n >= 0
RECURSIVE AddDays(_, _)
AddDays(dt, n) == IF n = 0 THEN dt ELSE AddDays(NextDay(dt), n - 1)

----------------------------------------------------------------------------
(* Rendering and parsing of dates *)

DigitChar(n) ==
  CASE n = 0 -> "0" [] n = 1 -> "1" [] n = 2 -> "2" [] n = 3 -> "3"
    [] n = 4 -> "4" [] n = 5 -> "5" [] n = 6 -> "6" [] n = 7 -> "7"
    [] n = 8 -> "8" [] n = 9 -> "9"

DigitVal(c) ==
  CASE c = "0" -> 0 [] c = "1" -> 1 [] c = "2" -> 2 [] c = "3" -> 3
    [] c = "4" -> 4 [] c = "5" -> 5 [] c = "6" -> 6 [] c = "7" -> 7
    [] c = "8" -> 8 [] c = "9" -> 9

Pow10(k) == CASE k = 0 -> 1 [] k = 1 -> 10 [] k = 2 -> 100 [] k = 3 -> 1000

\* "%0<w>d" % n
Pad(n, w) == [i \in 1..w |-> DigitChar((n \div Pow10(w - i)) % 10)]

RECURSIVE NumVal(_)
NumVal(s) ==
  IF s = <<>> THEN 0
  ELSE 10 * NumVal(SubSeq(s, 1, Len(s) - 1)) + DigitVal(s[Len(s)])

AllDigits(s) == \A i \in 1..Len(s) : s[i] \in Digits

\* str(date) = date.isoformat(): YYYY-MM-DD
IsoFormat(dt) == Pad(dt.y, 4) \o <<"-">> \o Pad(dt.m, 2) \o <<"-">> \o Pad(dt.d, 2)

\* date.strftime("%Y-%m-%d") for a year of four digits
StrftimeYmd(dt) == Pad(dt.y, 4) \o <<"-">> \o Pad(dt.m, 2) \o <<"-">> \o Pad(dt.d, 2)

\* strptime's pattern for %d: 3[0-1]|[1-2]\d|0[1-9]|[1-9]| [1-9]
MatchesDay(s) ==
  \/ Len(s) = 2 /\ s[1] = "3" /\ s[2] \in {"0", "1"}
  \/ Len(s) = 2 /\ s[1] \in {"1", "2"} /\ s[2] \in Digits
  \/ Len(s) = 2 /\ s[1] \in {"0", " "} /\ s[2] \in Digits \ {"0"}
  \/ Len(s) = 1 /\ s[1] \in Digits \ {"0"}

\* strptime's pattern for %m: 1[0-2]|0[1-9]|[1-9]
MatchesMonth(s) ==
  \/ Len(s) = 2 /\ s[1] = "1" /\ s[2] \in {"0", "1", "2"}
  \/ Len(s) = 2 /\ s[1] = "0" /\ s[2] \in Digits \ {"0"}
  \/ Len(s) = 1 /\ s[1] \in Digits \ {"0"}

\* strptime's pattern for %Y: \d\d\d\d
MatchesYear(s) == Len(s) = 4 /\ AllDigits(s)

\* The ways the pattern of "%d.%m.%Y" matches the whole of s: the lengths of
\* the day and month parts (at most one pair).
DmySplits(s) ==
  {p \in {1, 2} \X {1, 2} :
     /\ Len(s) = p[1] + p[2] + 6
     /\ s[p[1] + 1] = "."
     /\ s[p[1] + p[2] + 2] = "."
     /\ MatchesDay(SubSeq(s, 1, p[1]))
     /\ MatchesMonth(SubSeq(s, p[1] + 2, p[1] + p[2] + 1))
     /\ MatchesYear(SubSeq(s, p[1] + p[2] + 3, Len(s)))}

DmyFields(s) ==
  LET p == CHOOSE q \in DmySplits(s) : TRUE
      ds == SubSeq(s, 1, p[1])
  IN  [d |-> NumVal(IF ds[1] = " " THEN Tail(ds) ELSE ds),
       m |-> NumVal(SubSeq(s, p[1] + 2, p[1] + p[2] + 1)),
       y |-> NumVal(SubSeq(s, p[1] + p[2] + 3, Len(s)))]

\* datetime.strptime(s, DATE_STR_PATTERN).date() succeeds
StrptimeOk(s) ==
  /\ DmySplits(s) # {}
  /\ LET f == DmyFields(s) IN IsDate(f.y, f.m, f.d)

Strptime(s) == LET f == DmyFields(s) IN MkDate(f.y, f.m, f.d)

----------------------------------------------------------------------------
(* Fields *)

\* Mutant: match() in place of fullmatch(), with no $ in the pattern
PhoneMatchesPrefix(v) == Len(v) >= 10 /\ AllDigits(SubSeq(v, 1, 10))

\* Phone.MATCH_PATTERN.fullmatch(v): ^\d{10}$ on the whole string
PhoneMatches(v) == Len(v) = 10 /\ AllDigits(v)

\* The Phone.value setter on v: "ok" when it stores v, else the exception.
PhoneSet(v) ==
  IF v = None THEN "ok"
  ELSE IF ~IsStr(v) THEN "TypeError"
  ELSE IF ~PhoneMatches(v) THEN "ValueError"
  ELSE "ok"

\* The Birthday.value setter on v: "ok" when it stores a date (or None).
BirthdaySet(v) ==
  IF v = None THEN "ok"
  ELSE IF ~IsStr(v) THEN "TypeError"
  ELSE IF ~StrptimeOk(v) THEN "ValueError"
  ELSE "ok"

\* What a successful Birthday(v) holds.
BirthdayValue(v) == IF v = None THEN NoDate ELSE Strptime(v)

\* Field.__str__ on a Birthday holding dt: "" if unset, else str(date)
BirthdayStr(dt) == IF dt = NoDate THEN <<>> ELSE IsoFormat(dt)

----------------------------------------------------------------------------
(* Record *)

\* Record.__init__: Name(name) validates nothing
NewRecord(name) == [name |-> name, phones |-> <<>>, birthday |-> NoDate]

\* Record.find_phone: the index of the first phone whose value equals v, or 0
FindPhone(phones, v) ==
  IF \E i \in 1..Len(phones) : phones[i] = v
  THEN CHOOSE i \in 1..Len(phones) :
         phones[i] = v /\ \A j \in 1..(i - 1) : phones[j] # v
  ELSE 0

RemoveAt(seq, i) == SubSeq(seq, 1, i - 1) \o SubSeq(seq, i + 1, Len(seq))

\* The outcome of Record.add_phone(v) and the phone list it leaves
AddPhoneRes(v) == PhoneSet(v)

AddPhoneList(phones, v) ==
  IF PhoneSet(v) = "ok" THEN Append(phones, v) ELSE phones

\* Record.remove_phone(v)
RemovePhoneRes(phones, v) == IF FindPhone(phones, v) = 0 THEN "False" ELSE "True"

RemovePhoneList(phones, v) ==
  IF FindPhone(phones, v) = 0 THEN phones
  ELSE RemoveAt(phones, FindPhone(phones, v))

\* Mutant: the new value is validated before the old one is looked up
EditPhoneResValidateFirst(phones, old, new) ==
  IF PhoneSet(new) # "ok" THEN PhoneSet(new)
  ELSE IF FindPhone(phones, old) = 0 THEN "False"
  ELSE "True"

\* Record.edit_phone(old, new): the lookup comes first, the setter second
EditPhoneRes(phones, old, new) ==
  IF FindPhone(phones, old) = 0 THEN "False"
  ELSE IF PhoneSet(new) # "ok" THEN PhoneSet(new)
  ELSE "True"

EditPhoneList(phones, old, new) ==
  IF FindPhone(phones, old) # 0 /\ PhoneSet(new) = "ok"
  THEN [phones EXCEPT ![FindPhone(phones, old)] = new]
  ELSE phones

\* Record.add_birthday(v): the outcome, and the birthday the record then has
AddBirthdayRes(v) == BirthdaySet(v)

AddBirthdayValue(r, v) ==
  IF BirthdaySet(v) = "ok" THEN BirthdayValue(v) ELSE r.birthday

----------------------------------------------------------------------------
(* AddressBook *)

\* The position of key k in the dict, or 0
KeyIndex(b, k) ==
  IF \E i \in 1..Len(b) : b[i].key = k
  THEN CHOOSE i \in 1..Len(b) : b[i].key = k
  ELSE 0

\* Mutant: a list of entries appended to, in place of a dict
DictSetAppend(b, k, r) == Append(b, [key |-> k, rec |-> r])

\* self.data[k] = r: an existing key keeps its place, a new one goes last
DictSet(b, k, r) ==
  IF KeyIndex(b, k) # 0
  THEN [b EXCEPT ![KeyIndex(b, k)] = [key |-> k, rec |-> r]]
  ELSE Append(b, [key |-> k, rec |-> r])

\* AddressBook.add_record(r) for a record whose name is a string
AddRecordData(b, r) == DictSet(b, Normalize(r.name), r)

\* AddressBook.find(name): whether self.data.get(norm) is a record, and which
FindFound(b, name) == KeyIndex(b, Normalize(name)) # 0

FindRecord(b, name) == b[KeyIndex(b, Normalize(name))].rec

\* Mutant: the name is looked up as given, not normalized
DeleteDataRaw(b, name) ==
  IF KeyIndex(b, name) # 0 THEN RemoveAt(b, KeyIndex(b, name)) ELSE b

\* AddressBook.delete(name)
DeleteData(b, name) ==
  IF KeyIndex(b, Normalize(name)) # 0
  THEN RemoveAt(b, KeyIndex(b, Normalize(name)))
  ELSE b

\* Lines 171-173: whether date(...) raises ValueError for this birthday
CandidateRaises(bday, today) ==
  \/ ~IsDate(today.y, bday.m, bday.d)
  \/ /\ DateLess(MkDate(today.y, bday.m, bday.d), today)
     /\ ~IsDate(today.y + 1, bday.m, bday.d)

\* Lines 171-173: this year's occurrence, or next year's if it has passed
Candidate(bday, today) ==
  IF DateLess(MkDate(today.y, bday.m, bday.d), today)
  THEN MkDate(today.y + 1, bday.m, bday.d)
  ELSE MkDate(today.y, bday.m, bday.d)

\* Mutant: a Saturday is moved by one day only
AdjustedSaturdayPlusOne(candidate) ==
  IF Weekday(candidate) = 5 THEN AddDays(candidate, 1)
  ELSE IF Weekday(candidate) = 6 THEN AddDays(candidate, 1)
  ELSE candidate

\* Lines 175-180: the weekend shift
Adjusted(candidate) ==
  IF Weekday(candidate) = 5 THEN AddDays(candidate, 2)
  ELSE IF Weekday(candidate) = 6 THEN AddDays(candidate, 1)
  ELSE candidate

\* Lines 182-183
InWindow(candidate, today) ==
  0 <= DiffDays(candidate, today) /\ DiffDays(candidate, today) <= 7

\* The loop of get_upcoming_birthdays from entry i on, with the result so
\* far: it ends with the list, or with the ValueError of date(...)
RECURSIVE Scan(_, _, _, _)
Scan(b, i, today, result) ==
  IF i > Len(b) THEN [res |-> "ok", items |-> result]
  ELSE IF b[i].rec.birthday = NoDate THEN Scan(b, i + 1, today, result)
  ELSE IF CandidateRaises(b[i].rec.birthday, today)
       THEN [res |-> "ValueError", items |-> <<>>]
  ELSE LET candidate == Candidate(b[i].rec.birthday, today)
       IN  IF InWindow(candidate, today)
           THEN Scan(b, i + 1, today,
                     Append(result,
                            [name |-> b[i].rec.name,
                             congratulation_date |->
                               StrftimeYmd(Adjusted(candidate))]))
           ELSE Scan(b, i + 1, today, result)

\* AddressBook.get_upcoming_birthdays() when datetime.today() is `today`
GetUpcomingBirthdays(b, today) == Scan(b, 1, today, <<>>)

----------------------------------------------------------------------------
(* The commands *)

FormatAddMsg == "Format: add <name> <phone>"
FormatAddBirthdayMsg == "Format: add-birthday <name> <DD.MM.YYYY>"
PhoneErrorMsg == "The telephone number must contain exactly 10 digits"
BirthdayErrorMsg == "Invalid date format. Use DD.MM.YYYY"
NoContactMsg == "No such contact in the address book."
UnexpectedMsg == "An unexpected error occurred. Please try again."

\* input_error: what the wrapper returns for an exception and its message
InputError(exc, msg) ==
  CASE exc = "ValueError" -> msg
    [] exc = "KeyError" -> msg
    [] exc = "AttributeError" -> NoContactMsg
    [] OTHER -> UnexpectedMsg

\* The book with the phones of the record under key k replaced
WithPhones(b, k, phones) ==
  [b EXCEPT ![KeyIndex(b, k)].rec.phones = phones]

\* add_contact: the book it leaves. The record is created and stored
\* (lines 217-220) before the phone is validated (line 221).
AddContactData(args, b) ==
  IF Len(args) < 2 THEN b
  ELSE LET name == args[1]
           phone == args[2]
           b1 == IF FindFound(b, name) THEN b
                 ELSE AddRecordData(b, NewRecord(name))
       IN  WithPhones(b1, Normalize(name),
                      AddPhoneList(FindRecord(b1, name).phones, phone))

\* add_contact: the string it returns
AddContactMsg(args, b) ==
  IF Len(args) < 2 THEN InputError("ValueError", FormatAddMsg)
  ELSE IF AddPhoneRes(args[2]) # "ok"
       THEN InputError(AddPhoneRes(args[2]), PhoneErrorMsg)
  ELSE IF FindFound(b, args[1]) THEN "Contact updated."
  ELSE "Contact added."

\* add_birthday (the command): the book it leaves
AddBirthdayData(args, b) ==
  IF Len(args) < 2 \/ ~FindFound(b, args[1]) THEN b
  ELSE [b EXCEPT ![KeyIndex(b, Normalize(args[1]))].rec.birthday =
                    AddBirthdayValue(FindRecord(b, args[1]), args[2])]

\* add_birthday (the command): the string it returns
AddBirthdayMsg(args, b) ==
  IF Len(args) < 2 THEN InputError("ValueError", FormatAddBirthdayMsg)
  ELSE IF ~FindFound(b, args[1]) THEN InputError("AttributeError", "")
  ELSE IF AddBirthdayRes(args[2]) # "ok"
       THEN InputError(AddBirthdayRes(args[2]), BirthdayErrorMsg)
  ELSE "Birthday added."

----------------------------------------------------------------------------
(* Inputs *)

\* The most phones the model lets one record hold: a call that would add one
\* more is not made.
MaxPhones == 2

NameAl == <<"A", "l">>
NameAlSpaced == <<" ", "a", "l", " ">>
NameAlMixed == <<"a", "L">>
NameBo == <<"B", "o">>
NameEmpty == <<>>
NameBlank == <<" ">>

\* Names given to Record(...) directly
RecordNames == {NameAl, NameAlSpaced, NameBo, NameEmpty, NameBlank, None}

\* Names given to find and delete
LookupNames == {NameAl, NameAlSpaced, NameAlMixed, NameBo, NameEmpty}

\* Names as the command loop passes them: tokens of user_input.split()
TokenNames == {NameAl, NameAlMixed, NameBo}

PhoneA == <<"1", "2", "3", "4", "5", "6", "7", "8", "9", "0">>
PhoneB == <<"0", "9", "8", "7", "6", "5", "4", "3", "2", "1">>
PhoneShort == <<"1", "2", "3", "4", "5", "6", "7", "8", "9">>
PhoneLong == <<"1", "2", "3", "4", "5", "6", "7", "8", "9", "0", "1">>
PhoneLetter == <<"1", "2", "3", "4", "5", "a", "7", "8", "9", "0">>

\* Values given to the phone operations of a Record
PhoneInputs ==
  {PhoneA, PhoneB, PhoneShort, PhoneLong, PhoneLetter, <<>>, None, NotAStr}

\* Phones as the command loop passes them
TokenPhones == {PhoneA, PhoneShort}

AddArgs ==
  {<<n>> : n \in TokenNames} \cup {<<n, p>> : n \in TokenNames, p \in TokenPhones}

D(a, b) == <<a, b>>
Y(a, b, c, d) == <<a, b, c, d>>
Dmy(dd, mm, yyyy) == dd \o <<".">> \o mm \o <<".">> \o yyyy

\* Birthdays as the command loop passes them
TokenBirthdays ==
  {Dmy(D("1", "3"), D("0", "5"), Y("1", "9", "9", "0")),
   Dmy(D("1", "7"), D("0", "5"), Y("2", "0", "0", "0")),
   Dmy(D("1", "8"), D("0", "5"), Y("2", "0", "0", "1")),
   Dmy(D("1", "9"), D("0", "5"), Y("1", "9", "8", "5")),
   Dmy(D("2", "9"), D("0", "2"), Y("2", "0", "2", "4")),
   Dmy(D("0", "1"), D("0", "1"), Y("1", "9", "9", "9")),
   Dmy(D("3", "0"), D("1", "1"), Y("1", "9", "7", "0")),
   Dmy(D("0", "1"), D("0", "3"), Y("1", "9", "9", "5")),
   Dmy(D("2", "9"), D("0", "2"), Y("2", "0", "2", "3"))}

AddBirthdayArgs ==
  {<<n>> : n \in {NameAl}} \cup
  {<<n, v>> : n \in TokenNames, v \in TokenBirthdays}

\* What datetime.today().date() may be when the query runs
Todays ==
  {MkDate(2024, 5, 10), MkDate(2024, 5, 11), MkDate(2024, 5, 12),
   MkDate(2024, 5, 18), MkDate(2024, 11, 25), MkDate(2024, 12, 28),
   MkDate(2024, 2, 25), MkDate(2025, 2, 25), MkDate(2024, 3, 1)}

\* Raw values given to Birthday(...)
DayStrs == {D("0", "1"), D("1", "3"), D("2", "8"), D("2", "9"), D("3", "0"),
            D("3", "1"), D("3", "2"), D("0", "0"), <<"7">>}
MonthStrs == {D("0", "1"), D("0", "2"), D("0", "4"), D("1", "2"), D("1", "3"),
              <<"5">>}
YearStrs == {Y("2", "0", "2", "4"), Y("2", "0", "2", "3"), Y("1", "9", "0", "0"),
             Y("2", "0", "0", "0"), Y("0", "9", "9", "9"), Y("0", "0", "0", "0"),
             <<"2", "4">>}

BirthdayInputs ==
  {Dmy(dd, mm, yyyy) : dd \in DayStrs, mm \in MonthStrs, yyyy \in YearStrs}
  \cup {None, NotAStr, <<>>,
        <<"1", "3", "-", "0", "5", "-", "2", "0", "2", "4">>,
        <<"2", "0", "2", "4", "-", "0", "5", "-", "1", "3">>}

----------------------------------------------------------------------------
(* State *)

\* A call and its outcome; the fields a call does not use keep these values.
Call(op, name, res) ==
  [op |-> op, name |-> name, arg |-> None, res |-> res,
   rec |-> NewRecord(None), today |-> NoDate, items |-> <<>>]

NoCall == Call("none", None, "none")

NewField == [raw |-> None, stage |-> "idle", value |-> NoDate, text |-> <<>>]

\* main(): book = AddressBook()
InitBook == book = <<>> /\ last = NoCall

Init ==
  /\ InitBook
  /\ rec = NewRecord(NameAl)
  /\ fld = NewField

----------------------------------------------------------------------------
(* The directory and the add command *)

\* book.add_record(Record(name))
AddRecord(name) ==
  /\ book' = IF name = None THEN book ELSE AddRecordData(book, NewRecord(name))
  /\ last' = Call("add_record", name, IF name = None THEN "AttributeError" ELSE "ok")
  /\ UNCHANGED <<rec, fld>>

\* book.find(name)
Find(name) ==
  /\ last' = IF FindFound(book, name)
             THEN [Call("find", name, "found") EXCEPT !.rec = FindRecord(book, name)]
             ELSE Call("find", name, "None")
  /\ UNCHANGED <<book, rec, fld>>

\* book.delete(name)
Delete(name) ==
  /\ book' = DeleteData(book, name)
  /\ last' = Call("delete", name, "ok")
  /\ UNCHANGED <<rec, fld>>

\* add_contact(args, book)
AddContact(args) ==
  /\ Len(args) >= 2 /\ FindFound(book, args[1]) /\ AddPhoneRes(args[2]) = "ok"
       => Len(FindRecord(book, args[1]).phones) < MaxPhones
  /\ book' = AddContactData(args, book)
  /\ last' = [Call("add_contact", args[1], AddContactMsg(args, book))
                EXCEPT !.arg = IF Len(args) >= 2 THEN args[2] ELSE None]
  /\ UNCHANGED <<rec, fld>>

Next ==
  \/ \E name \in RecordNames : AddRecord(name)
  \/ \E name \in LookupNames : Find(name)
  \/ \E name \in LookupNames : Delete(name)
  \/ \E args \in AddArgs : AddContact(args)

Spec == Init /\ [][Next]_vars

----------------------------------------------------------------------------
(* The birthdays *)

\* add_birthday(args, book)
AddBirthday(args) ==
  /\ book' = AddBirthdayData(args, book)
  /\ last' = [Call("add_birthday", args[1], AddBirthdayMsg(args, book))
                EXCEPT !.arg = IF Len(args) >= 2 THEN args[2] ELSE None]
  /\ UNCHANGED <<rec, fld>>

\* book.get_upcoming_birthdays(), the clock reading `today`
Birthdays(today) ==
  /\ last' = [Call("birthdays", None, GetUpcomingBirthdays(book, today).res)
                EXCEPT !.today = today,
                       !.items = GetUpcomingBirthdays(book, today).items]
  /\ UNCHANGED <<book, rec, fld>>

NextBirthdays ==
  \/ \E name \in TokenNames : AddRecord(name)
  \/ \E name \in TokenNames : Delete(name)
  \/ \E args \in AddBirthdayArgs : AddBirthday(args)
  \/ \E today \in Todays : Birthdays(today)

SpecBirthdays == Init /\ [][NextBirthdays]_vars

----------------------------------------------------------------------------
(* The phones of one record *)

\* rec.add_phone(v)
AddPhone(v) ==
  /\ AddPhoneRes(v) = "ok" => Len(rec.phones) < MaxPhones
  /\ rec' = [rec EXCEPT !.phones = AddPhoneList(rec.phones, v)]
  /\ last' = [Call("add_phone", None, AddPhoneRes(v)) EXCEPT !.arg = v]
  /\ UNCHANGED <<book, fld>>

\* rec.remove_phone(v)
RemovePhone(v) ==
  /\ rec' = [rec EXCEPT !.phones = RemovePhoneList(rec.phones, v)]
  /\ last' = [Call("remove_phone", None, RemovePhoneRes(rec.phones, v))
                EXCEPT !.arg = v]
  /\ UNCHANGED <<book, fld>>

\* rec.edit_phone(old, new)
EditPhone(old, new) ==
  /\ rec' = [rec EXCEPT !.phones = EditPhoneList(rec.phones, old, new)]
  /\ last' = [Call("edit_phone", old, EditPhoneRes(rec.phones, old, new))
                EXCEPT !.arg = new]
  /\ UNCHANGED <<book, fld>>

NextRecord ==
  \/ \E v \in PhoneInputs : AddPhone(v)
  \/ \E v \in PhoneInputs : RemovePhone(v)
  \/ \E old \in PhoneInputs, new \in PhoneInputs : EditPhone(old, new)

SpecRecord == Init /\ [][NextRecord]_vars

----------------------------------------------------------------------------
(* A Birthday field *)

\* Birthday(raw)
Construct(raw) ==
  /\ fld.stage = "idle"
  /\ fld' = IF BirthdaySet(raw) = "ok"
            THEN [raw |-> raw, stage |-> "set", value |-> BirthdayValue(raw),
                  text |-> <<>>]
            ELSE [raw |-> raw, stage |-> BirthdaySet(raw), value |-> NoDate,
                  text |-> <<>>]
  /\ UNCHANGED <<book, last, rec>>

\* str(field)
Render ==
  /\ fld.stage = "set"
  /\ fld' = [fld EXCEPT !.stage = "shown", !.text = BirthdayStr(fld.value)]
  /\ UNCHANGED <<book, last, rec>>

NextField ==
  \/ \E raw \in BirthdayInputs : Construct(raw)
  \/ Render

SpecField == Init /\ [][NextField]_vars

----------------------------------------------------------------------------
(* Properties *)

BookIndex == 1..Len(book)

\* A string of exactly 10 decimal digits
TenDigits(v) == IsStr(v) /\ Len(v) = 10 /\ \A i \in 1..10 : v[i] \in Digits

\* C1: the directory holds at most one record per normalized name; a successful
\* add_record leaves the new record under its normalized name, and when a
\* record of that normalized name was already there the size does not grow.
C1_OneRecordPerName ==
  /\ [](/\ \A i, j \in BookIndex :
             Normalize(book[i].rec.name) = Normalize(book[j].rec.name) => i = j
        /\ last.op = "add_record" /\ last.res = "ok" =>
             \E i \in BookIndex :
               /\ Normalize(book[i].rec.name) = Normalize(last.name)
               /\ book[i].rec = [name |-> last.name, phones |-> <<>>,
                                 birthday |-> NoDate])
  /\ [][(/\ last'.op = "add_record"
         /\ last'.res = "ok"
         /\ \E i \in BookIndex :
              Normalize(book[i].rec.name) = Normalize(last'.name))
        => Len(book') = Len(book)]_vars

\* C1 witness: " al " was added over an earlier "Al" (which came before "Bo"):
\* the slot is the same and holds the later record.
C1_Witness ==
  /\ last.op = "add_record" /\ last.name = NameAlSpaced
  /\ Len(book) = 2
  /\ book[1].rec.name = NameAlSpaced
  /\ book[2].rec.name = NameBo

\* C8: no record stored in the directory has an empty or absent name.
C8_NamesNonEmpty ==
  \A i \in BookIndex : book[i].rec.name # <<>> /\ book[i].rec.name # None

\* C9: find and delete of a name whose normalized form is no key leave the
\* directory unchanged, find returning None and delete returning normally;
\* delete of a present name removes the entry under that key and no other.
C9_MissingLookup ==
  [][/\ (last'.op = "find"
         /\ \A i \in BookIndex : book[i].key # Normalize(last'.name))
        => last'.res = "None" /\ book' = book
     /\ (last'.op = "delete"
         /\ \A i \in BookIndex : book[i].key # Normalize(last'.name))
        => last'.res = "ok" /\ book' = book
     /\ (last'.op = "delete"
         /\ \E i \in BookIndex : book[i].key = Normalize(last'.name))
        => /\ last'.res = "ok"
           /\ Len(book') = Len(book) - 1
           /\ \A i \in BookIndex :
                IF book[i].key = Normalize(last'.name)
                THEN \A j \in 1..Len(book') : book'[j].key # book[i].key
                ELSE \E j \in 1..Len(book') : book'[j] = book[i]]_vars

\* C9 witness: a delete was made by a differently written name and one other
\* entry, with its phone, is what the directory holds.
C9_Witness ==
  /\ last.op = "delete" /\ last.name = NameAlMixed
  /\ Len(book) = 1
  /\ book[1].rec.name = NameBo
  /\ book[1].rec.phones = <<PhoneA>>

\* C10: an add command that returns the phone validation message leaves the
\* address book as it was.
C10_FailedAddChangesNothing ==
  [][last'.op = "add_contact" /\ last'.res = PhoneErrorMsg => book' = book]_vars

\* The occurrence of a birthday relative to a reference date: this year's
\* month and day, or next year's if this year's is before the reference date.
Occurrence(bday, today) ==
  IF \/ bday.m < today.m
     \/ bday.m = today.m /\ bday.d < today.d
  THEN [y |-> today.y + 1, m |-> bday.m, d |-> bday.d]
  ELSE [y |-> today.y, m |-> bday.m, d |-> bday.d]

\* The date a string YYYY-MM-DD denotes
FromYmd(s) ==
  [y |-> NumVal(SubSeq(s, 1, 4)), m |-> NumVal(SubSeq(s, 6, 7)),
   d |-> NumVal(SubSeq(s, 9, 10))]

Reported(name) == \E k \in 1..Len(last.items) : last.items[k].name = name

\* Whether the occurrence is a day of the calendar (29 February is not, in a
\* year that is not a leap year)
OccurrenceExists(bday, today) ==
  LET occ == Occurrence(bday, today) IN IsDate(occ.y, occ.m, occ.d)

\* C2: the query includes a contact if and only if it has a birthday whose
\* occurrence is 0 to 7 days after the reference date. (Stated for the
\* contacts without a birthday and those whose occurrence exists.)
C2_IncludedIffInWindow ==
  last.op = "birthdays" =>
    \A i \in BookIndex :
      (book[i].rec.birthday # NoDate =>
         OccurrenceExists(book[i].rec.birthday, last.today))
      => (Reported(book[i].rec.name) <=>
            /\ book[i].rec.birthday # NoDate
            /\ ToOrdinal(Occurrence(book[i].rec.birthday, last.today))
                 - ToOrdinal(last.today) \in 0..7)

\* C3: every reported contact is a contact of the directory whose occurrence
\* is 0 to 7 days out, and its congratulation date is the occurrence plus 2
\* days for a Saturday, plus 1 day for a Sunday, else the occurrence: never a
\* Saturday or Sunday. A completed query reports every contact whose
\* occurrence is a Saturday or Sunday 0 to 7 days out.
C3_WeekendShift ==
  last.op = "birthdays" /\ last.res = "ok" =>
    /\ \A k \in 1..Len(last.items) :
         \E i \in BookIndex :
           /\ book[i].rec.name = last.items[k].name
           /\ book[i].rec.birthday # NoDate
           /\ LET occ == Occurrence(book[i].rec.birthday, last.today)
                  day == FromYmd(last.items[k].congratulation_date)
              IN  /\ ToOrdinal(occ) - ToOrdinal(last.today) \in 0..7
                  /\ IsDate(day.y, day.m, day.d)
                  /\ Len(last.items[k].congratulation_date) = 10
                  /\ ToOrdinal(day) - ToOrdinal(occ) =
                       CASE ToOrdinal(occ) % 7 = 6 -> 2
                         [] ToOrdinal(occ) % 7 = 0 -> 1
                         [] OTHER -> 0
                  /\ ToOrdinal(day) % 7 \notin {6, 0}
    /\ \A i \in BookIndex :
         /\ book[i].rec.birthday # NoDate
         /\ ToOrdinal(Occurrence(book[i].rec.birthday, last.today)) % 7 \in {6, 0}
         /\ ToOrdinal(Occurrence(book[i].rec.birthday, last.today))
              - ToOrdinal(last.today) \in 0..7
         => Reported(book[i].rec.name)

\* C3 witness: on Saturday 2024-05-11 a birthday of 18.05, a Saturday 7 days
\* out, is reported for Monday 2024-05-20, 9 days out.
C3_Witness ==
  /\ last.op = "birthdays" /\ last.res = "ok"
  /\ last.today = [y |-> 2024, m |-> 5, d |-> 11]
  /\ \E k \in 1..Len(last.items) :
       last.items[k].congratulation_date =
         <<"2", "0", "2", "4", "-", "0", "5", "-", "2", "0">>
  /\ \E i \in BookIndex : book[i].rec.birthday = [y |-> 2001, m |-> 5, d |-> 18]

\* C4: the query completes and returns a list, whatever birthdays the
\* directory holds and whatever the reference date.
C4_QueryCompletes == last.op = "birthdays" => last.res = "ok"

\* C5 as claimed: every stored phone has exactly 10 decimal digits.
C5_EveryPhoneTenDigits ==
  \A i \in 1..Len(rec.phones) : TenDigits(rec.phones[i])

\* C5: every stored phone is unset (None) or has exactly 10 decimal digits;
\* add_phone and edit_phone of a found phone with a value that is neither None
\* nor 10 digits raise, ValueError for a string and TypeError otherwise; a
\* call that raises leaves the phone list as it was.
C5_PhonesValidOrUnset ==
  /\ [](\A i \in 1..Len(rec.phones) :
          rec.phones[i] = None \/ TenDigits(rec.phones[i]))
  /\ [][/\ (last'.op = "add_phone" /\ last'.arg # None /\ ~TenDigits(last'.arg))
           => last'.res = (IF IsStr(last'.arg) THEN "ValueError" ELSE "TypeError")
        /\ (/\ last'.op = "edit_phone"
            /\ \E i \in 1..Len(rec.phones) : rec.phones[i] = last'.name
            /\ last'.arg # None /\ ~TenDigits(last'.arg))
           => last'.res = (IF IsStr(last'.arg) THEN "ValueError" ELSE "TypeError")
        /\ (last'.op \in {"add_phone", "edit_phone"}
            /\ last'.res \in {"ValueError", "TypeError"})
           => rec' = rec]_vars

\* C5 witness: an add_phone has raised ValueError on a record that holds a
\* 10-digit phone and an unset one.
C5_Witness ==
  /\ last.op = "add_phone" /\ last.res = "ValueError"
  /\ rec.phones = <<PhoneA, None>>

\* C6: edit_phone(old, new) on a record with no phone equal to old returns
\* False, whatever new is, and leaves the phone list unchanged.
C6_EditMissingPhone ==
  [][(last'.op = "edit_phone"
      /\ \A i \in 1..Len(rec.phones) : rec.phones[i] # last'.name)
     => last'.res = "False" /\ rec' = rec]_vars

\* C6 witness: edit_phone has returned False for an old number the record
\* does not hold and a malformed new one.
C6_Witness ==
  /\ last.op = "edit_phone" /\ last.res = "False"
  /\ last.name = PhoneLong /\ last.arg = PhoneShort
  /\ rec.phones = <<PhoneA, PhoneB>>

\* A string of the form DD.MM.YYYY that denotes a real calendar date
RealDmy(s) ==
  /\ IsStr(s) /\ Len(s) = 10
  /\ s[3] = "." /\ s[6] = "."
  /\ \A i \in {1, 2, 4, 5, 7, 8, 9, 10} : s[i] \in Digits
  /\ LET y == NumVal(SubSeq(s, 7, 10))
         m == NumVal(SubSeq(s, 4, 5))
         d == NumVal(SubSeq(s, 1, 2))
     IN  /\ y >= 1 /\ m \in 1..12 /\ d >= 1
         /\ d <= (IF m = 2
                  THEN (IF y % 4 = 0 /\ (y % 100 # 0 \/ y % 400 = 0) THEN 29 ELSE 28)
                  ELSE IF m \in {4, 6, 9, 11} THEN 30 ELSE 31)

\* C7: Birthday(s) succeeds for every DD.MM.YYYY string s of a real date and
\* renders as s; an unset Birthday renders as the empty string.
C7_RoundTrip ==
  /\ RealDmy(fld.raw) =>
       /\ fld.stage \notin {"ValueError", "TypeError"}
       /\ fld.stage = "shown" => fld.text = fld.raw
  /\ fld.stage = "shown" /\ fld.raw = None => fld.text = <<>>

====
